---- MODULE Spec2Model ----
(***************************************************************************)
(* Model of calculator.py: the loan amortization engine (loan_repayments), *)
(* the aggregate total (total_sum) and the cash-flow construction of the   *)
(* effective rate solver (calculate_effective_interest_rate).              *)
(*                                                                         *)
(* Numbers.  The program computes on Python floats.  Here every amount is  *)
(* an exact rational <<numerator, denominator>> in lowest terms with a     *)
(* positive denominator, so "=" below is equality of real numbers; the     *)
(* rounding of IEEE doubles is not modelled.  What is modelled of float    *)
(* arithmetic is the one outcome that changes control flow: a float        *)
(* division whose divisor is zero raises ZeroDivisionError.                *)
(*                                                                         *)
(* Requests.  request.payment_number is Optional[int]: <<>> stands for     *)
(* None and <<k>> for the integer k.  num_payments ranges over 1..MaxN.    *)
(***************************************************************************)
EXTENDS Integers, Sequences, FiniteSets

VARIABLES request, pc, endpoint, response, remaining_principal, cash_flows

vars == <<request, pc, endpoint, response, remaining_principal, cash_flows>>

(* ---------------------------- bounds and inputs ------------------------- *)

MaxN == 3

Principals == {1200, 2400}

Rates == {0, 600, 1200}

InitialFees == {0, 100}

PaymentFees == {0, 3}

BalloonAmounts == {0, 500}

LoanType == {"annuity", "fixed_amortization", "fixed_payment"}

PaymentNumbers == {<<>>} \cup {<<k>> : k \in (-1)..(MaxN + 1)}

LoanRepaymentRequest ==
    [principal : Principals, rate : Rates, num_payments : 1..MaxN,
     loan_type : LoanType, initial_fee : InitialFees,
     payment_fee : PaymentFees, balloon_amount : BalloonAmounts,
     payment_number : PaymentNumbers]

(* --------------------------- float arithmetic --------------------------- *)

Abs(i) == IF i < 0 THEN -i ELSE i

RECURSIVE GCD(_, _)
GCD(a, b) == IF b = 0 THEN a ELSE GCD(b, a % b)

Norm(n, d) ==
    LET s == IF d < 0 THEN -1 ELSE 1
        g == GCD(Abs(n), Abs(d))
    IN  <<(s * n) \div g, (s * d) \div g>>

Float(i) == <<i, 1>>

Add(a, b) == Norm(a[1] * b[2] + b[1] * a[2], a[2] * b[2])

Sub(a, b) == Norm(a[1] * b[2] - b[1] * a[2], a[2] * b[2])

Mul(a, b) == Norm(a[1] * b[1], a[2] * b[2])

\* a / b for b # 0; callers test the divisor, as Python raises on a zero one
Div(a, b) == Norm(a[1] * b[2], a[2] * b[1])

IsZero(a) == a[1] = 0

\* a ** e for an integer exponent e and a > 0
RECURSIVE Pow(_, _)
Pow(a, e) ==
    IF e = 0 THEN Float(1)
    ELSE IF e < 0 THEN Div(Float(1), Pow(a, -e))
    ELSE Mul(a, Pow(a, e - 1))

\* Python truthiness of an Optional[int]: None and 0 are false
Truthy(opt) == opt # <<>> /\ opt[1] # 0

(* ------------------------------ responses ------------------------------- *)

PaymentDetail(payment_number, principal, interest, fee, total_amount) ==
    [payment_number |-> payment_number, principal |-> principal,
     interest |-> interest, fee |-> fee, total_amount |-> total_amount]

\* What a handler produces: a value it returns or an exception it raises.
\* kind is "AllPaymentsResponse" (payments = the schedule), "PaymentDetail"
\* (payments = the one row), "float", "HTTPException404",
\* "ZeroDivisionError" or "AttributeError" (payments empty).
Outcome(kind, payments) == [kind |-> kind, payments |-> payments]

NoResponse == Outcome("none", <<>>)

(* --------------------------- payment formulas --------------------------- *)

MonthlyInterestRate(rate) == Div(Div(Float(rate), Float(12)), Float(100))

\* [ok |-> FALSE] models the ZeroDivisionError of the division on line 39
calculate_annuity_payment(principal, rate, num_payments) ==
    LET monthly_interest_rate == MonthlyInterestRate(rate)
        divisor == Sub(Float(1),
                       Pow(Add(Float(1), monthly_interest_rate), -num_payments))
    IN  IF IsZero(divisor)
        THEN [ok |-> FALSE, value |-> Float(0)]
        ELSE [ok |-> TRUE,
              value |-> Div(Mul(Float(principal), monthly_interest_rate), divisor)]

calculate_fixed_payment(principal, rate, num_payments) ==
    LET monthly_interest_rate == MonthlyInterestRate(rate)
        divisor == Sub(Float(1),
                       Pow(Add(Float(1), monthly_interest_rate), -num_payments))
    IN  IF IsZero(monthly_interest_rate)
        THEN [ok |-> TRUE, value |-> Div(Float(principal), Float(num_payments))]
        ELSE IF IsZero(divisor)
        THEN [ok |-> FALSE, value |-> Float(0)]
        ELSE [ok |-> TRUE,
              value |-> Div(Mul(Float(principal), monthly_interest_rate), divisor)]

calculate_fixed_amortization_principal_payment(principal, num_payments) ==
    Div(Float(principal), Float(num_payments))

(* --------------------------- loan_repayments ---------------------------- *)

fee_for_payment(req, payment_number) ==
    Add(Float(req.payment_fee),
        IF payment_number = 1 THEN Float(req.initial_fee) ELSE Float(0))

\* a fixed amortization that spreads only the non-balloon part of the loan
fixed_amortization_principal_spread(req) ==
    Div(Float(req.principal - req.balloon_amount), Float(req.num_payments))

\* line 70: the principal part of every fixed_amortization payment
fixed_amortization_principal(req) ==
    Div(Float(req.principal), Float(req.num_payments))

\* lines 59-71: the policy's split of the period's payment, computed on the
\* current remaining balance; ok = FALSE when the payment formula raises
principal_and_interest(req, remaining) ==
    LET monthly_interest_rate == MonthlyInterestRate(req.rate)
        interest_for_payment == Mul(remaining, monthly_interest_rate)
        payment ==
            IF req.loan_type = "annuity"
            THEN calculate_annuity_payment(req.principal, req.rate, req.num_payments)
            ELSE calculate_fixed_payment(req.principal, req.rate, req.num_payments)
    IN  IF req.loan_type = "fixed_amortization"
        THEN [ok |-> TRUE,
              principal |-> fixed_amortization_principal(req),
              interest |-> interest_for_payment]
        ELSE IF payment.ok
        THEN [ok |-> TRUE,
              principal |-> Sub(payment.value, interest_for_payment),
              interest |-> interest_for_payment]
        ELSE [ok |-> FALSE, principal |-> Float(0), interest |-> Float(0)]

\* lines 73-77: the total of the period, balloon added on the final payment
total_payment(req, payment_number, principal, interest, fee) ==
    LET total == Add(Add(principal, interest), fee)
    IN  IF payment_number = req.num_payments
        THEN Add(total, Float(req.balloon_amount))
        ELSE total

\* the balloon added to the total only, the recorded principal left as it is
adjusted_principal_unadjusted(req, payment_number, principal) == principal

\* lines 76-78: the principal recorded in the row
adjusted_principal(req, payment_number, principal) ==
    IF payment_number = req.num_payments
    THEN Add(principal, Float(req.balloon_amount))
    ELSE principal

\* the balance reduced by the whole recorded principal, balloon included
reduced_principal_with_balloon(req, payment_number, remaining, principal) ==
    Sub(remaining, principal)

\* line 80: the balance after the period; principal is the adjusted one
reduced_principal(req, payment_number, remaining, principal) ==
    Sub(remaining,
        IF payment_number = req.num_payments
        THEN Sub(principal, Float(req.balloon_amount))
        ELSE principal)

\* the match taken one iteration early
is_requested_payment_off_by_one(req, payment_number) ==
    Truthy(req.payment_number) /\ payment_number + 1 = req.payment_number[1]

\* line 84: the requested payment has just been appended
is_requested_payment(req, payment_number) ==
    Truthy(req.payment_number) /\ payment_number = req.payment_number[1]

\* lines 87-89: the loop ended without a match
after_loop(req, payments_list) ==
    IF Truthy(req.payment_number)
    THEN Outcome("HTTPException404", <<>>)
    ELSE Outcome("AllPaymentsResponse", payments_list)

\* lines 56-89 from the iteration for payment_number on; the result is the
\* handler's outcome and the final value of its local remaining_principal
RECURSIVE loan_repayments_from(_, _, _, _)
loan_repayments_from(req, payment_number, remaining, payments_list) ==
    IF payment_number > req.num_payments
    THEN [outcome |-> after_loop(req, payments_list),
          remaining_principal |-> remaining]
    ELSE
      LET split == principal_and_interest(req, remaining)
          fee == fee_for_payment(req, payment_number)
          total == total_payment(req, payment_number, split.principal,
                                 split.interest, fee)
          principal == adjusted_principal(req, payment_number, split.principal)
          new_remaining == reduced_principal(req, payment_number, remaining,
                                             principal)
          new_list == Append(payments_list,
                             PaymentDetail(payment_number, principal,
                                           split.interest, fee, total))
      IN  IF ~split.ok
          THEN [outcome |-> Outcome("ZeroDivisionError", <<>>),
                remaining_principal |-> remaining]
          ELSE IF is_requested_payment(req, payment_number)
          THEN [outcome |-> Outcome("PaymentDetail", <<new_list[Len(new_list)]>>),
                remaining_principal |-> new_remaining]
          ELSE loan_repayments_from(req, payment_number + 1, new_remaining,
                                    new_list)

loan_repayments(req) ==
    loan_repayments_from(req, 1, Float(req.principal), <<>>)

(* ------------------------------ total_sum ------------------------------- *)

\* a fold that starts after the first element
RECURSIVE sum_skipping_first(_)
sum_skipping_first(floats) ==
    IF Len(floats) <= 1 THEN Float(0)
    ELSE Add(sum_skipping_first(SubSeq(floats, 1, Len(floats) - 1)),
             floats[Len(floats)])

\* Python's sum(): a left fold from 0
RECURSIVE sum(_)
sum(floats) ==
    IF floats = <<>> THEN Float(0)
    ELSE Add(sum(SubSeq(floats, 1, Len(floats) - 1)), floats[Len(floats)])

\* lines 94-97: the generator (payment.<field> for payment in payments)
column(payments, field) == [i \in 1..Len(payments) |-> payments[i][field]]

\* lines 94-105, and the exceptions that pass through line 93
total_sum_of(all_payments_response) ==
    LET payments == all_payments_response.payments
    IN  IF all_payments_response.kind = "AllPaymentsResponse"
        THEN Outcome("PaymentDetail",
                 <<PaymentDetail(0, sum(column(payments, "principal")),
                                 sum(column(payments, "interest")),
                                 sum(column(payments, "fee")),
                                 sum(column(payments, "total_amount")))>>)
        ELSE IF all_payments_response.kind = "PaymentDetail"
        THEN Outcome("AttributeError", <<>>)
        ELSE all_payments_response

total_sum(req) == total_sum_of(loan_repayments(req).outcome)

(* ------------------- calculate_effective_interest_rate ------------------ *)

\* lines 117-118 and 130-131: for _ in range(2, num_payments)
RECURSIVE regular_payments(_, _, _, _)
regular_payments(req, i, payment, flows) ==
    IF i >= req.num_payments THEN flows
    ELSE regular_payments(req, i + 1, payment,
                          Append(flows, Add(payment, Float(req.payment_fee))))

\* lines 110-134: the annuity and the fixed_payment branch
level_cash_flows(req, payment) ==
    LET first == Append(<<Float(-req.principal)>>,
                        Add(Add(payment, Float(req.initial_fee)),
                            Float(req.payment_fee)))
        regular == regular_payments(req, 2, payment, first)
    IN  Append(regular,
               Add(Add(payment, Float(req.payment_fee)),
                   Float(req.balloon_amount)))

\* lines 145-148: the loop of the fixed_amortization branch; the result is
\* the vector and the value remaining_principal has when the loop ends
RECURSIVE amortization_payments(_, _, _, _, _)
amortization_payments(req, i, principal_payment, remaining, flows) ==
    IF i >= req.num_payments
    THEN [cash_flows |-> flows, remaining_principal |-> remaining]
    ELSE
      LET reduced == Sub(remaining, principal_payment)
          interest_payment == Mul(reduced, MonthlyInterestRate(req.rate))
      IN  amortization_payments(req, i + 1, principal_payment, reduced,
              Append(flows, Add(Add(principal_payment, interest_payment),
                                Float(req.payment_fee))))

\* lines 136-152
amortization_cash_flows(req) ==
    LET principal_payment ==
            calculate_fixed_amortization_principal_payment(req.principal,
                                                           req.num_payments)
        first_interest_payment ==
            Mul(Float(req.principal), MonthlyInterestRate(req.rate))
        first == Append(<<Float(-req.principal)>>,
                        Add(Add(Add(principal_payment, first_interest_payment),
                                Float(req.initial_fee)),
                            Float(req.payment_fee)))
        loop == amortization_payments(req, 2, principal_payment,
                                      Float(req.principal), first)
        last_interest_payment ==
            Mul(loop.remaining_principal, MonthlyInterestRate(req.rate))
    IN  Append(loop.cash_flows,
               Add(Add(Add(principal_payment, last_interest_payment),
                       Float(req.payment_fee)),
                   Float(req.balloon_amount)))

\* lines 107-160.  npf.irr is a library call on the finished vector; its
\* numeric result is not modelled, the outcome only records that a float
\* is returned.
calculate_effective_interest_rate(req) ==
    LET payment ==
            IF req.loan_type = "annuity"
            THEN calculate_annuity_payment(req.principal, req.rate, req.num_payments)
            ELSE calculate_fixed_payment(req.principal, req.rate, req.num_payments)
    IN  IF req.loan_type = "fixed_amortization"
        THEN [outcome |-> Outcome("float", <<>>),
              cash_flows |-> amortization_cash_flows(req)]
        ELSE IF payment.ok
        THEN [outcome |-> Outcome("float", <<>>),
              cash_flows |-> level_cash_flows(req, payment.value)]
        ELSE [outcome |-> Outcome("ZeroDivisionError", <<>>),
              cash_flows |-> <<Float(-req.principal)>>]

(* ----------------------------- the endpoints ---------------------------- *)

Init ==
    /\ request \in LoanRepaymentRequest
    /\ pc = "ready"
    /\ endpoint = "none"
    /\ response = NoResponse
    /\ remaining_principal = Float(request.principal)
    /\ cash_flows = <<>>

PostLoanRepayments ==
    /\ pc = "ready"
    /\ LET run == loan_repayments(request)
       IN  /\ response' = run.outcome
           /\ remaining_principal' = run.remaining_principal
    /\ endpoint' = "loan_repayments"
    /\ pc' = "done"
    /\ UNCHANGED <<request, cash_flows>>

PostTotalSum ==
    /\ pc = "ready"
    /\ LET run == loan_repayments(request)
       IN  /\ response' = total_sum_of(run.outcome)
           /\ remaining_principal' = run.remaining_principal
    /\ endpoint' = "total_sum"
    /\ pc' = "done"
    /\ UNCHANGED <<request, cash_flows>>

PostEffectiveInterestRate ==
    /\ pc = "ready"
    /\ LET run == calculate_effective_interest_rate(request)
       IN  /\ response' = run.outcome
           /\ cash_flows' = run.cash_flows
    /\ endpoint' = "effective_interest_rate"
    /\ pc' = "done"
    /\ UNCHANGED <<request, remaining_principal>>

Next ==
    \/ PostLoanRepayments
    \/ PostTotalSum
    \/ PostEffectiveInterestRate

Spec == Init /\ [][Next]_vars

TypeOK ==
    /\ request \in LoanRepaymentRequest
    /\ pc \in {"ready", "done"}
    /\ endpoint \in {"none", "loan_repayments", "total_sum",
                     "effective_interest_rate"}
    /\ response.kind \in {"none", "AllPaymentsResponse", "PaymentDetail",
                          "float", "HTTPException404", "ZeroDivisionError",
                          "AttributeError"}

(* ------------------------------ properties ------------------------------ *)

n == request.num_payments

Unset(req) == [req EXCEPT !.payment_number = <<>>]

Returned == response.kind \in {"AllPaymentsResponse", "PaymentDetail"}

\* the sum of one field over the first k rows
RECURSIVE FieldSum(_, _, _)
FieldSum(rows, field, k) ==
    IF k = 0 THEN Float(0)
    ELSE Add(FieldSum(rows, field, k - 1), rows[k][field])

\* C1: a loan_repayments request whose payment_number is present and
\* outside 1..num_payments (0, negative, greater than num_payments) fails
\* with the 404 out-of-range error and returns no schedule and no row.
\* Stated for the requests whose schedule can be computed; the others end
\* in the division error of C6 before the range is ever looked at.
C1_OutOfRangeIsNotFound ==
    (/\ endpoint = "loan_repayments"
     /\ request.payment_number # <<>>
     /\ request.payment_number[1] \notin 1..n
     /\ loan_repayments(Unset(request)).outcome.kind = "AllPaymentsResponse")
    => /\ ~Returned
       /\ response.kind = "HTTPException404"

\* C2: loan_repayments with payment_number = k in 1..num_payments returns
\* the single row that is the k-th row of the full schedule of the same
\* request with payment_number unset (and, where the full schedule is not
\* returned, ends the same way as the unset request does).
C2_SinglePaymentIsScheduleRow ==
    (/\ endpoint = "loan_repayments"
     /\ request.payment_number # <<>>
     /\ request.payment_number[1] \in 1..n)
    => LET full == loan_repayments(Unset(request)).outcome
           k == request.payment_number[1]
       IN  IF full.kind = "AllPaymentsResponse"
           THEN /\ Len(full.payments) = n
                /\ response = Outcome("PaymentDetail", <<full.payments[k]>>)
                /\ response.payments[1].payment_number = k
           ELSE response = full

C2_Witness ==
    /\ endpoint = "loan_repayments"
    /\ request.payment_number = <<2>>
    /\ n = 3
    /\ request.balloon_amount = 500
    /\ response.kind = "PaymentDetail"
    /\ response.payments[1].payment_number = 2

\* C3: total_sum called with payment_number set to a valid k ignores the
\* selector: its outcome is the one of the same request with
\* payment_number unset, the aggregate over the full schedule.
C3_TotalSumIgnoresSelector ==
    (/\ endpoint = "total_sum"
     /\ request.payment_number # <<>>
     /\ request.payment_number[1] \in 1..n)
    => response = total_sum(Unset(request))

\* C4: with payment_number unset, total_sum returns a PaymentDetail with
\* payment_number 0 whose principal, interest, fee and total_amount are the
\* sums of that field over all rows of the full schedule loan_repayments
\* returns for the request (where no schedule is returned, total_sum ends
\* as loan_repayments does).
C4_TotalSumIsFieldwiseSum ==
    (/\ endpoint = "total_sum"
     /\ request.payment_number = <<>>)
    => LET full == loan_repayments(request).outcome
           rows == full.payments
       IN  IF full.kind = "AllPaymentsResponse"
           THEN /\ response.kind = "PaymentDetail"
                /\ Len(response.payments) = 1
                /\ Len(rows) = n
                /\ response.payments[1].payment_number = 0
                /\ \A f \in {"principal", "interest", "fee", "total_amount"} :
                       response.payments[1][f] = FieldSum(rows, f, n)
           ELSE response = full

C4_Witness ==
    /\ endpoint = "total_sum"
    /\ request.payment_number = <<>>
    /\ n = 3
    /\ request.initial_fee = 100
    /\ response.kind = "PaymentDetail"
    /\ response.payments[1].payment_number = 0
    /\ response.payments[1].fee = Float(3 * request.payment_fee + 100)

\* C5 as stated: for fixed_amortization every row of the schedule,
\* the final one included and with any balloon_amount, has principal
\* exactly principal / num_payments.
C5_EveryPrincipalIsPOverN ==
    (/\ endpoint = "loan_repayments"
     /\ request.loan_type = "fixed_amortization"
     /\ Returned)
    => \A i \in 1..Len(response.payments) :
           response.payments[i].principal =
               Div(Float(request.principal), Float(n))

\* C5 amended: for fixed_amortization every row before the final one has
\* principal exactly principal / num_payments, and the final row has
\* principal / num_payments + balloon_amount.
C5_PrincipalIsPOverNPlusFinalBalloon ==
    (/\ endpoint = "loan_repayments"
     /\ request.loan_type = "fixed_amortization"
     /\ Returned)
    => \A i \in 1..Len(response.payments) :
           LET row == response.payments[i]
               share == Div(Float(request.principal), Float(n))
           IN  row.principal =
                   IF row.payment_number = n
                   THEN Add(share, Float(request.balloon_amount))
                   ELSE share

C5_Witness ==
    /\ endpoint = "loan_repayments"
    /\ request.loan_type = "fixed_amortization"
    /\ request.balloon_amount = 500
    /\ request.principal = 1200
    /\ n = 3
    /\ response.kind = "AllPaymentsResponse"
    /\ response.payments[2].principal = Float(400)
    /\ response.payments[3].principal = Float(900)

\* C6: with rate = 0 the schedule is computed without a division by zero
\* for every policy: loan_repayments returns the schedule, each row with
\* zero interest and an ordinary principal of principal / num_payments.
C6_ZeroRateNeverDividesByZero ==
    (/\ endpoint = "loan_repayments"
     /\ request.rate = 0
     /\ request.payment_number = <<>>)
    => /\ response.kind = "AllPaymentsResponse"
       /\ \A i \in 1..Len(response.payments) :
              LET row == response.payments[i]
                  ordinary == IF i = n
                              THEN Sub(row.principal,
                                       Float(request.balloon_amount))
                              ELSE row.principal
              IN  /\ row.interest = Float(0)
                  /\ ordinary = Div(Float(request.principal), Float(n))

\* C7: the cash-flow vector calculate_effective_interest_rate builds has
\* length num_payments + 1, element 0 (the first) equal to -principal,
\* one element per period, also for num_payments = 1.
C7_CashFlowVectorLength ==
    (/\ endpoint = "effective_interest_rate"
     /\ response.kind = "float")
    => /\ Len(cash_flows) = n + 1
       /\ cash_flows[1] = Float(-request.principal)

\* C8: the cash flow built for period k equals the total_amount of row k
\* of the schedule loan_repayments computes for the same request.
\* Stated for num_payments >= 2; with one payment the vector has an
\* element too many (C7) and the periods do not line up at all.
C8_CashFlowsAreScheduleTotals ==
    (/\ endpoint = "effective_interest_rate"
     /\ response.kind = "float"
     /\ n >= 2)
    => LET full == loan_repayments(Unset(request)).outcome
       IN  /\ full.kind = "AllPaymentsResponse"
           /\ \A k \in 1..n :
                  /\ k + 1 \in DOMAIN cash_flows
                  /\ cash_flows[k + 1] = full.payments[k].total_amount

\* C9: in a full schedule the final row's total_amount is the ordinary
\* principal + interest + fee of that period plus balloon_amount once, no
\* earlier row includes the balloon, and the final period reduces the
\* remaining balance by the non-balloon principal only; "ordinary" is what
\* the same request with balloon_amount = 0 yields.
C9_BalloonOnceOnFinalRow ==
    (/\ endpoint = "loan_repayments"
     /\ response.kind = "AllPaymentsResponse")
    => LET plain == loan_repayments([request EXCEPT !.balloon_amount = 0])
           rows == response.payments
           balloon == Float(request.balloon_amount)
       IN  /\ Len(rows) = n
           /\ plain.outcome.kind = "AllPaymentsResponse"
           /\ \A k \in 1..(n - 1) : rows[k] = plain.outcome.payments[k]
           /\ rows[n].total_amount =
                  Add(plain.outcome.payments[n].total_amount, balloon)
           /\ rows[n].total_amount =
                  Add(Add(Add(Sub(rows[n].principal, balloon),
                              rows[n].interest), rows[n].fee), balloon)
           /\ remaining_principal = plain.remaining_principal
           /\ remaining_principal =
                  Add(Sub(Float(request.principal),
                          FieldSum(rows, "principal", n)), balloon)

C9_Witness ==
    /\ endpoint = "loan_repayments"
    /\ response.kind = "AllPaymentsResponse"
    /\ n = 1
    /\ request.balloon_amount = 500
    /\ request.initial_fee = 100
    /\ request.payment_fee = 3
    /\ request.rate = 0
    /\ request.loan_type = "fixed_payment"
    /\ response.payments[1].fee = Float(103)
    /\ response.payments[1].total_amount = Float(request.principal + 603)
    /\ remaining_principal = Float(0)

\* C10: every row loan_repayments produces, the final (balloon) one
\* included, has total_amount = principal + interest + fee, with
\* fee = payment_fee + initial_fee on row 1 and payment_fee on the others.
C10_TotalIsSumOfParts ==
    (/\ endpoint = "loan_repayments"
     /\ Returned)
    => \A i \in 1..Len(response.payments) :
           LET row == response.payments[i]
           IN  /\ row.total_amount =
                      Add(Add(row.principal, row.interest), row.fee)
               /\ row.fee =
                      Float(request.payment_fee +
                            (IF row.payment_number = 1
                             THEN request.initial_fee ELSE 0))

C10_Witness ==
    /\ endpoint = "loan_repayments"
    /\ response.kind = "PaymentDetail"
    /\ n = 2
    /\ request.payment_number = <<2>>
    /\ request.balloon_amount = 500
    /\ request.rate = 600
    /\ request.loan_type = "annuity"
    /\ response.payments[1].fee = Float(request.payment_fee)

====
